---- MODULE Spec2Model ----
(***************************************************************************)
(* Dual storage of git activity records: the SQLite ledger                 *)
(* (backend/models/database.py) and the JSON cache document                *)
(* (backend/models/storage_manager.py), with the hook scripts that insert  *)
(* into the ledger, the background sync thread and the backups.            *)
(***************************************************************************)
EXTENDS Integers, Sequences, FiniteSets, TLC

(* ------------------------------ bounds --------------------------------- *)

\* number of ids the AUTOINCREMENT sequence hands out in a run
MaxId == 3
\* number of seconds the wall clock advances in a run
MaxClock == 2
\* the day "now" falls on, for delete_old_activities
Today == 2
\* number of start_background_sync calls in a run
MaxLoops == 2

(* ------------------------- program constants --------------------------- *)

\* storage_manager.py:141  len(data['activities']) > 1000, scaled to 2
MaxActivities == 2
\* storage_manager.py:250  backup_count = 7, scaled to 2
BackupCount == 2

(* ------------------------------ inputs --------------------------------- *)

Threads == {"req1", "req2", "sched"}
Requests == {"req1", "req2"}
NoThread == "none"

\* activity_data dictionaries handed to insert_activity; the timestamp is
\* the caller's, a day number here, so it need not follow insertion order
Inputs ==
  { [activity_type |-> "commit", timestamp |-> 2, repo_path |-> "repoA", branch_name |-> "main"],
    [activity_type |-> "push",   timestamp |-> 1, repo_path |-> "repoB", branch_name |-> "dev"] }

\* the activity_data the push hook hands over
PushInputs == { i \in Inputs : i.activity_type = "push" }

\* days arguments of delete_old_activities
PurgeDays == {0, 1}

\* repo_path values of the rows of monitored_repos
Repos == { i.repo_path : i \in Inputs }

VARIABLES
  ledger,     \* rows of git_activities
  seq,        \* sqlite_sequence: the largest id ever assigned
  tieOrder,   \* the order the query plan gives rows of equal timestamp
  file,       \* records.json on disk
  lock,       \* holder of records.json.lock
  backups,    \* backups/records_<timestamp>.json, by timestamp
  now,        \* wall clock, seconds
  sm,         \* threads that hold a constructed StorageManager
  pc,         \* position of each thread
  op,         \* the method each thread is running
  data,       \* the document a thread is about to write
  activity,   \* activity_data of the running save_activity, id included
  src,        \* content of the backup a running restore_from_backup copies
  res,        \* what the last finished method of a thread returned
  clean,      \* no one else touched ledger or file since the thread's sync read
  returned,   \* ids returned by insert_activity, in order
  inserted,   \* id -> the activity_data of the row, until it is deleted
  cacheLog,   \* records whose incremental update was written, newest first
  loop,       \* position of BackgroundSyncThread: not created, started, in run
  running,    \* BackgroundSyncThread.running
  stopCalled, \* BackgroundSyncThread.stop() has been called
  repoStats,  \* monitored_repos: repo_path -> total_commits, total_pushes
  out,        \* the last query a caller ran: its arguments and what it returned
  synced,     \* the document the running sync thread's last rebuild wrote
  loops       \* number of BackgroundSyncThread objects start() was called on

vars == << ledger, seq, tieOrder, file, lock, backups, now, sm, pc, op, data,
           activity, src, res, clean, returned, inserted, cacheLog,
           loop, running, stopCalled, repoStats, out, synced, loops >>

(* --------------------------- pure functions ---------------------------- *)

Min(a, b) == IF a < b THEN a ELSE b

Take(s, n) == SubSeq(s, 1, Min(n, Len(s)))

Ids(s) == { s[i].id : i \in DOMAIN s }

\* sum(1 for a in activities if a['activity_type'] == ty)
CountType(activities, ty) ==
  Cardinality({ i \in DOMAIN activities : activities[i].activity_type = ty })

\* max(counts.keys(), key=counts.get) over a dict filled in list order:
\* the first key, in order of first occurrence, that has the largest count
MostActive(keys) ==
  IF keys = << >> THEN ""
  ELSE LET count(k) == Cardinality({ i \in DOMAIN keys : keys[i] = k })
           first(k) == CHOOSE i \in DOMAIN keys :
                         keys[i] = k /\ \A j \in DOMAIN keys : keys[j] = k => i <= j
           ks       == { keys[i] : i \in DOMAIN keys }
           best     == { k \in ks : \A k2 \in ks : count(k) >= count(k2) }
       IN CHOOSE k \in best : \A k2 \in best : first(k) <= first(k2)

CalculateStatistics(activities) ==
  [ total_commits      |-> CountType(activities, "commit"),
    total_pushes       |-> CountType(activities, "push"),
    most_active_repo   |-> MostActive([i \in DOMAIN activities |-> activities[i].repo_path]),
    most_active_branch |-> MostActive([i \in DOMAIN activities |-> activities[i].branch_name]) ]

EmptyStatistics ==
  [ total_commits |-> 0, total_pushes |-> 0,
    most_active_repo |-> "", most_active_branch |-> "" ]

\* the document _init_json_file writes and _read_json falls back to
InitialData(t) ==
  [ last_updated |-> t, activities |-> << >>, statistics |-> EmptyStatistics ]

\* what is on disk: st is "absent", "empty" (opened for writing, nothing
\* flushed yet), "ok" (one complete document) or "torn" (bytes of two
\* writes); size stands for the length in bytes
NoDoc == InitialData(0)
Absent == [ st |-> "absent", doc |-> NoDoc, size |-> 0 ]
Truncated == [ st |-> "empty", doc |-> NoDoc, size |-> 0 ]
Complete(d) == [ st |-> "ok", doc |-> d, size |-> Len(d.activities) + 1 ]

\* open(path, 'w') or shutil's open(dst, 'wb'): the file exists and is empty
OpenForWrite(f) == Truncated

\* a writer that opened the file earlier writes its bytes from offset 0:
\* bytes another writer put there meanwhile survive beyond the new ones
WriteBytes(f, content) ==
  IF content.size = 0 THEN [ f EXCEPT !.st = IF f.st = "absent" THEN "empty" ELSE @ ]
  ELSE IF content.size >= f.size THEN content
  ELSE [ st |-> "torn", doc |-> NoDoc, size |-> f.size ]

\* _read_json: json.load, or the initial data when the file is missing or
\* does not parse
ReadJson(f, t) == IF f.st = "ok" THEN f.doc ELSE InitialData(t)

\* a sort whose order of equal timestamps changes from one run of the query
\* to the next
RowBeforeUnstable(a, b, ties) ==
  \/ a.timestamp > b.timestamp
  \/ /\ a.timestamp = b.timestamp
     /\ IF now % 2 = 0 THEN a.id > b.id ELSE a.id < b.id

\* SELECT * FROM git_activities ORDER BY timestamp DESC
RowBefore(a, b, ties) ==
  \/ a.timestamp > b.timestamp
  \/ /\ a.timestamp = b.timestamp
     /\ IF ties = "desc" THEN a.id > b.id ELSE a.id < b.id

RECURSIVE OrderByTimestampDesc(_, _)
OrderByTimestampDesc(rows, ties) ==
  IF rows = {} THEN << >>
  ELSE LET r == CHOOSE x \in rows : \A y \in rows \ {x} : RowBefore(x, y, ties)
       IN << r >> \o OrderByTimestampDesc(rows \ {r}, ties)

\* Database.get_all_activities with a LIMIT of the cache's cap
GetAllActivitiesCapped(rows, ties) == Take(OrderByTimestampDesc(rows, ties), MaxActivities)

\* Database.get_all_activities
GetAllActivities(rows, ties) == OrderByTimestampDesc(rows, ties)

\* a rowid without AUTOINCREMENT: one more than the largest id in the table
NextRowIdReused(rows, lastSeq) ==
  IF rows = {} THEN 1
  ELSE (CHOOSE r \in rows : \A q \in rows : q.id <= r.id).id + 1

\* INTEGER PRIMARY KEY AUTOINCREMENT: one more than the largest id ever used
NextRowId(rows, lastSeq) == lastSeq + 1

\* SELECT * FROM git_activities WHERE id = ?
None == [ id |-> 0 ]
GetActivityById(rows, id) ==
  IF \E r \in rows : r.id = id THEN CHOOSE r \in rows : r.id = id ELSE None

\* timestamp < datetime('now', '-' || days || ' days'), compared as text:
\* 'YYYY-MM-DDTHH:MM:SS' against 'YYYY-MM-DD HH:MM:SS', so a record of the
\* cutoff's own day is never smaller ('T' sorts after ' ')
OlderThan(timestamp, days) == timestamp < Today - days

\* activity_data with the id save_activity adds to it
WithId(input, id) ==
  [ id |-> id, activity_type |-> input.activity_type, timestamp |-> input.timestamp,
    repo_path |-> input.repo_path, branch_name |-> input.branch_name ]

\* the document _update_json_cache builds from the one it read
UpdatedData(d, activity_data, t) ==
  LET acts == << activity_data >> \o d.activities
      kept == IF Len(acts) > MaxActivities THEN SubSeq(acts, 1, MaxActivities) ELSE acts
  IN [ last_updated |-> t, activities |-> kept, statistics |-> CalculateStatistics(kept) ]

\* a rebuild that caps the activities but counts the whole ledger
RebuiltDataCapped(rows, ties, t) ==
  LET activities == GetAllActivities(rows, ties)
  IN [ last_updated |-> t, activities |-> Take(activities, MaxActivities),
       statistics |-> CalculateStatistics(activities) ]

\* a rebuild that rewrites the document it finds in the file instead of
\* reading the ledger
RebuiltDataFromFile(rows, ties, t) == [ ReadJson(file, t) EXCEPT !.last_updated = t ]

\* the document sync_from_db_to_json builds
RebuiltData(rows, ties, t) ==
  LET activities == GetAllActivities(rows, ties)
  IN [ last_updated |-> t, activities |-> activities,
       statistics |-> CalculateStatistics(activities) ]

(* ------------------------------ results -------------------------------- *)

\* op: the method, ret: its return value, id: the id the ledger assigned
\* (0 when none), cacheOk: the cache write went through, wrote: the call
\* opened records.json for writing, prev: what the file held when it did
NoRes ==
  [ op |-> "none", ret |-> 0, id |-> 0, cacheOk |-> FALSE, wrote |-> FALSE,
    prev |-> "none" ]
Running(o) == [ NoRes EXCEPT !.op = o ]

\* save_activity: except Exception -> return -1
SaveResultOnInsertFailure == [ Running("save") EXCEPT !.ret = -1 ]

\* the cache exception reaches save_activity's own handler: return -1
SaveResultOnCacheRaised(old, a) ==
  [ old EXCEPT !.ret = -1, !.id = a.id, !.cacheOk = FALSE ]

\* _update_json_cache swallowed the exception; save_activity returns the id
SaveResultOnCacheFailure(old, a) ==
  [ old EXCEPT !.ret = a.id, !.id = a.id, !.cacheOk = FALSE ]

SaveResultOnSuccess(old, a) ==
  [ old EXCEPT !.ret = a.id, !.id = a.id, !.cacheOk = TRUE ]

\* if activity_id <= 0: raise
InsertOk(activity_id) == activity_id > 0

NoActivity == WithId(CHOOSE i \in Inputs : TRUE, 0)

\* monitored_repos: total_commits INTEGER DEFAULT 0, total_pushes INTEGER
\* DEFAULT 0
NoTotals == [ total_commits |-> 0, total_pushes |-> 0 ]

\* no query has returned yet
NoOut == [ call |-> "none" ]

(* ------------------------------- state --------------------------------- *)

Init ==
  /\ ledger = {}
  /\ seq = 0
  /\ tieOrder \in {"asc", "desc"}
  /\ file = Absent
  /\ lock = NoThread
  /\ backups = << >>
  /\ now = 0
  /\ sm = {}
  /\ pc = [t \in Threads |-> "idle"]
  /\ op = [t \in Threads |-> "none"]
  /\ data = [t \in Threads |-> NoDoc]
  /\ activity = [t \in Threads |-> NoActivity]
  /\ src = [t \in Threads |-> Absent]
  /\ res = [t \in Threads |-> NoRes]
  /\ clean = [t \in Threads |-> FALSE]
  /\ returned = << >>
  /\ inserted = << >>
  /\ cacheLog = << >>
  /\ loop = "none"
  /\ running = FALSE
  /\ stopCalled = FALSE
  /\ repoStats = [p \in Repos |-> NoTotals]
  /\ out = NoOut
  /\ synced = NoDoc
  /\ loops = 0

\* someone other than t changed the ledger or the file
Touched(t) == [u \in Threads |-> IF u = t THEN clean[u] ELSE FALSE]

(* ------------------------------ the clock ------------------------------ *)

Tick ==
  /\ now < MaxClock
  /\ now' = now + 1
  /\ UNCHANGED << ledger, seq, tieOrder, file, lock, backups, sm, pc, op, data,
                  activity, src, res, clean, returned, inserted,
                  cacheLog,
                  loop, running, stopCalled, repoStats, out, synced, loops >>

(* ------------------------------ the ledger ----------------------------- *)

\* Database.insert_activity: INSERT, commit, return cursor.lastrowid
InsertActivity(input) ==
  LET id == NextRowId(ledger, seq)
  IN /\ Len(returned) < MaxId
     /\ ledger' = { r \in ledger : r.id # id } \cup { WithId(input, id) }
     /\ seq' = IF id > seq THEN id ELSE seq
     /\ returned' = Append(returned, id)
     /\ inserted' = (id :> input) @@ inserted

\* capture_commit.py / capture_push.py: save_activity(data), straight into
\* the database
HookInsert(input) ==
  /\ InsertActivity(input)
  /\ clean' = Touched(NoThread)
  /\ UNCHANGED << tieOrder, file, lock, backups, now, sm, pc, op, data,
                  activity, src, res, cacheLog,
                  loop, running, stopCalled, repoStats, out, synced, loops >>

\* Database.delete_old_activities(days)
DeleteOldActivities(days) ==
  LET old == { r \in ledger : OlderThan(r.timestamp, days) }
  IN /\ old # {}
     /\ ledger' = ledger \ old
     /\ inserted' = [ id \in DOMAIN inserted \ { r.id : r \in old } |-> inserted[id] ]
     /\ clean' = Touched(NoThread)
     /\ UNCHANGED << seq, tieOrder, file, lock, backups, now, sm, pc, op, data,
                     activity, src, res, returned, cacheLog,
                  loop, running, stopCalled, repoStats, out, synced, loops >>

\* a purge that goes on to rebuild the cache from the rows that are left
PurgeOlderThanAndCache(t, days) ==
  LET old == { r \in ledger : OlderThan(r.timestamp, days) }
  IN /\ pc[t] = "idle"
     /\ ledger' = ledger \ old
     /\ inserted' = [ id \in DOMAIN inserted \ { r.id : r \in old } |-> inserted[id] ]
     /\ file' = Complete(RebuiltData(ledger \ old, tieOrder, now))
     /\ op' = [op EXCEPT ![t] = "purge"]
     /\ res' = [res EXCEPT ![t] = [ Running("purge") EXCEPT !.ret = Cardinality(old) ]]
     /\ clean' = IF old = {} THEN clean ELSE Touched(NoThread)
     /\ UNCHANGED << seq, tieOrder, lock, backups, now, sm, pc, data,
                     activity, src, returned, cacheLog,
                     loop, running, stopCalled, repoStats, out, synced, loops >>

\* Database.delete_old_activities(days) called by thread t, which keeps
\* cursor.rowcount, the number of rows deleted
PurgeOlderThan(t, days) ==
  LET old == { r \in ledger : OlderThan(r.timestamp, days) }
  IN /\ pc[t] = "idle"
     /\ ledger' = ledger \ old
     /\ inserted' = [ id \in DOMAIN inserted \ { r.id : r \in old } |-> inserted[id] ]
     /\ op' = [op EXCEPT ![t] = "purge"]
     /\ res' = [res EXCEPT ![t] = [ Running("purge") EXCEPT !.ret = Cardinality(old) ]]
     /\ clean' = IF old = {} THEN clean ELSE Touched(NoThread)
     /\ UNCHANGED << seq, tieOrder, file, lock, backups, now, sm, pc, data,
                     activity, src, returned, cacheLog,
                     loop, running, stopCalled, repoStats, out, synced, loops >>

(* -------------------------- ledger queries ---------------------------- *)

\* arguments of get_activities: pages from 1 on, page sizes as the route
\* passes them on (int(request.args.get('page_size', 20)), any integer),
\* and filters, "" and NoDate standing for an argument that is not given
Pages == 1..2
PageSizes == (0 - 1)..2
NoDate == 0 - 1
TypeFilters == {"", "commit"}
RepoFilters == {"", "repoB"}
StartDates == {NoDate, 2}
EndDates == {NoDate, 1}

\* the WHERE clause get_activities puts together
Matches(r, activity_type, repo_path, start_date, end_date) ==
  /\ activity_type # "" => r.activity_type = activity_type
  /\ repo_path # "" => r.repo_path = repo_path
  /\ start_date # NoDate => r.timestamp >= start_date
  /\ end_date # NoDate => r.timestamp <= end_date

\* LIMIT ? OFFSET ? of SQLite: a negative LIMIT is no bound, a negative
\* OFFSET is none
LimitOffset(ordered, limit, offset) ==
  LET skip == IF offset < 0 THEN 0 ELSE Min(offset, Len(ordered))
      rest == SubSeq(ordered, skip + 1, Len(ordered))
  IN IF limit < 0 THEN rest ELSE Take(rest, limit)

\* offset = (page - 1) * page_size counted from the second page on only
PageOffsetFromSecond(page, page_size) == page * page_size

\* offset = (page - 1) * page_size
PageOffset(page, page_size) == (page - 1) * page_size

\* Database.get_activities
GetActivities(rows, ties, page, page_size, activity_type, repo_path, start_date, end_date) ==
  LET matching == { r \in rows :
                      Matches(r, activity_type, repo_path, start_date, end_date) }
  IN [ activities |-> LimitOffset(OrderByTimestampDesc(matching, ties), page_size,
                                  PageOffset(page, page_size)),
       total |-> Cardinality(matching) ]

\* a caller runs get_activities and keeps what it returned
ListActivities(page, page_size, activity_type, repo_path, start_date, end_date) ==
  /\ out' = [ call |-> "list", page |-> page, page_size |-> page_size,
              activity_type |-> activity_type, repo_path |-> repo_path,
              start_date |-> start_date, end_date |-> end_date,
              rows |-> ledger,
              value |-> GetActivities(ledger, tieOrder, page, page_size,
                                      activity_type, repo_path, start_date,
                                      end_date) ]
  /\ UNCHANGED << ledger, seq, tieOrder, file, lock, backups, now, sm, pc, op,
                  data, activity, src, res, clean, returned, inserted, cacheLog,
                  loop, running, stopCalled, repoStats, synced, loops >>

\* SELECT COUNT(CASE WHEN activity_type = 'commit' ...), COUNT(CASE WHEN
\* activity_type = 'push' ...) FROM git_activities WHERE repo_path = ?
RepoCounts(rows, repo_path) ==
  [ total_commits |->
      Cardinality({ r \in rows : r.repo_path = repo_path /\ r.activity_type = "commit" }),
    total_pushes |->
      Cardinality({ r \in rows : r.repo_path = repo_path /\ r.activity_type = "push" }) ]

\* Database.update_repo_stats(repo_path): if result and result[0] > 0, the
\* row of monitored_repos gets the counts; result[0] is the commit count
UpdatedRepoStats(stats, rows, repo_path) ==
  LET result == RepoCounts(rows, repo_path)
  IN IF result.total_commits > 0 THEN [stats EXCEPT ![repo_path] = result]
     ELSE stats

\* list_repos for one monitored repo: db.update_repo_stats(repo_path), then
\* the row is read again and returned
UpdateRepoStats(repo_path) ==
  /\ repoStats' = UpdatedRepoStats(repoStats, ledger, repo_path)
  /\ out' = [ call |-> "repo_stats", repo_path |-> repo_path, rows |-> ledger,
              value |-> UpdatedRepoStats(repoStats, ledger, repo_path)[repo_path] ]
  /\ UNCHANGED << ledger, seq, tieOrder, file, lock, backups, now, sm, pc, op,
                  data, activity, src, res, clean, returned, inserted, cacheLog,
                  loop, running, stopCalled, synced, loops >>

(* ------------------------- StorageManager() ---------------------------- *)

\* a method of t left: back to idle, or on to backup_json in the sync thread
After(t, o) == IF t = "sched" /\ o = "sync" THEN "backup" ELSE "idle"

\* __init__ -> _init_json_file: if not os.path.exists(json_path), write the
\* initial data; the write is the one of _write_json below
InitJsonFile(t) ==
  /\ pc[t] = "idle"
  /\ t = "sched" => t \notin sm
  /\ IF file.st # "absent"
     THEN /\ sm' = sm \cup {t}
          /\ UNCHANGED << pc, op, data, res >>
     ELSE /\ pc' = [pc EXCEPT ![t] = "w_lock"]
          /\ op' = [op EXCEPT ![t] = "init"]
          /\ data' = [data EXCEPT ![t] = InitialData(now)]
          /\ res' = [res EXCEPT ![t] = Running("init")]
          /\ UNCHANGED sm
  /\ UNCHANGED << ledger, seq, tieOrder, file, lock, backups, now, activity,
                  src, clean, returned, inserted, cacheLog,
                  loop, running, stopCalled, repoStats, out, synced, loops >>

(* --------------------------- _write_json ------------------------------- *)

\* a lock that never excludes anyone
LockFreeAlways(t) == TRUE

\* FileLock(lock_path, timeout=10) can be taken
LockFree(t) == lock = NoThread

\* the file as a rebuild finds it
Found(f) ==
  IF f.st # "ok" THEN f.st
  ELSE IF /\ f.doc.statistics.total_commits = Cardinality({ r \in ledger : r.activity_type = "commit" })
          /\ f.doc.statistics.total_pushes = Cardinality({ r \in ledger : r.activity_type = "push" })
       THEN "agrees" ELSE "diverged"

\* the result of a method whose cache write raised
FailedResult(t) ==
  IF op[t] = "save" THEN SaveResultOnCacheFailure(res[t], activity[t])
  ELSE [ res[t] EXCEPT !.ret = 0 ]

\* with FileLock(...): with open(json_path, 'w'): the lock is taken and the
\* file truncated
WriteAcquire(t) ==
  /\ pc[t] = "w_lock"
  /\ LockFree(t)
  /\ lock' = t
  /\ file' = OpenForWrite(file)
  /\ pc' = [pc EXCEPT ![t] = "w_dump"]
  /\ res' = [res EXCEPT ![t].wrote = TRUE,
                         ![t].prev = IF op[t] = "sync" THEN Found(file) ELSE "none"]
  /\ clean' = Touched(t)
  /\ UNCHANGED << ledger, seq, tieOrder, backups, now, sm, op, data, activity,
                  src, returned, inserted, cacheLog,
                  loop, running, stopCalled, repoStats, out, synced, loops >>

\* a writer that gives up waiting for the lock and writes all the same
WriteTimeoutWrites(t) ==
  /\ pc[t] = "w_lock"
  /\ lock \notin {NoThread, t}
  /\ file' = OpenForWrite(file)
  /\ pc' = [pc EXCEPT ![t] = "w_dump"]
  /\ res' = [res EXCEPT ![t].wrote = TRUE]
  /\ clean' = Touched(t)
  /\ UNCHANGED << ledger, seq, tieOrder, lock, backups, now, sm, op, data, activity,
                  src, returned, inserted, cacheLog,
                  loop, running, stopCalled, repoStats, out, synced, loops >>

\* the lock is held by someone else for the whole timeout: filelock.Timeout
WriteTimeout(t) ==
  /\ pc[t] = "w_lock"
  /\ lock \notin {NoThread, t}
  /\ pc' = [pc EXCEPT ![t] = After(t, op[t])]
  /\ res' = [res EXCEPT ![t] = FailedResult(t)]
  /\ data' = [data EXCEPT ![t] = NoDoc]
  /\ activity' = [activity EXCEPT ![t] = NoActivity]
  /\ clean' = [clean EXCEPT ![t] = FALSE]
  /\ UNCHANGED << ledger, seq, tieOrder, file, lock, backups, now, sm, op, src,
                  returned, inserted, cacheLog,
                  loop, running, stopCalled, repoStats, out, synced, loops >>

\* open() raises (disk fault): the with statement releases the lock again
WriteFault(t) ==
  /\ pc[t] = "w_lock"
  /\ LockFree(t)
  /\ pc' = [pc EXCEPT ![t] = After(t, op[t])]
  /\ res' = [res EXCEPT ![t] = FailedResult(t)]
  /\ data' = [data EXCEPT ![t] = NoDoc]
  /\ activity' = [activity EXCEPT ![t] = NoActivity]
  /\ clean' = [clean EXCEPT ![t] = FALSE]
  /\ UNCHANGED << ledger, seq, tieOrder, file, lock, backups, now, sm, op, src,
                  returned, inserted, cacheLog,
                  loop, running, stopCalled, repoStats, out, synced, loops >>

\* some bytes of the document json.dump is writing: not yet a document
Partial == [ st |-> "torn", doc |-> NoDoc, size |-> 1 ]

\* json.dump is under way and the file buffer is flushed to disk: the file
\* holds the beginning of the document
WriteFlush(t) ==
  /\ pc[t] = "w_dump"
  /\ file.st = "empty"
  /\ file' = WriteBytes(file, Partial)
  /\ UNCHANGED << ledger, seq, tieOrder, lock, backups, now, sm, pc, op, data,
                  activity, src, res, clean, returned, inserted, cacheLog,
                  loop, running, stopCalled, repoStats, out, synced, loops >>

\* a with statement that does not release the lock when its body raises
WriteDumpFaultHolds(t) ==
  /\ pc[t] = "w_dump"
  /\ pc' = [pc EXCEPT ![t] = After(t, op[t])]
  /\ res' = [res EXCEPT ![t] = FailedResult(t)]
  /\ data' = [data EXCEPT ![t] = NoDoc]
  /\ activity' = [activity EXCEPT ![t] = NoActivity]
  /\ clean' = [clean EXCEPT ![t] = FALSE]
  /\ UNCHANGED << ledger, seq, tieOrder, file, lock, backups, now, sm, op, src,
                  returned, inserted, cacheLog,
                  loop, running, stopCalled, repoStats, out, synced, loops >>

\* json.dump raises inside the critical section (the disk is full, a value
\* cannot be serialised): the file stays as the dump left it, both with
\* statements exit, the lock is released and the caller's handler runs
WriteDumpFault(t) ==
  /\ pc[t] = "w_dump"
  /\ lock' = NoThread
  /\ pc' = [pc EXCEPT ![t] = After(t, op[t])]
  /\ res' = [res EXCEPT ![t] = FailedResult(t)]
  /\ data' = [data EXCEPT ![t] = NoDoc]
  /\ activity' = [activity EXCEPT ![t] = NoActivity]
  /\ clean' = [clean EXCEPT ![t] = FALSE]
  /\ UNCHANGED << ledger, seq, tieOrder, file, backups, now, sm, op, src,
                  returned, inserted, cacheLog,
                  loop, running, stopCalled, repoStats, out, synced, loops >>

\* json.dump, close, release; then the rest of the calling method
WriteDump(t) ==
  /\ pc[t] = "w_dump"
  /\ file' = WriteBytes(file, Complete(data[t]))
  /\ lock' = NoThread
  /\ pc' = [pc EXCEPT ![t] = After(t, op[t])]
  /\ sm' = IF op[t] = "init" THEN sm \cup {t} ELSE sm
  /\ res' = [res EXCEPT ![t] =
               IF op[t] = "save" THEN SaveResultOnSuccess(@, activity[t])
               ELSE [ @ EXCEPT !.ret = 1 ]]
  /\ cacheLog' = IF op[t] = "save" THEN Take(<< activity[t] >> \o cacheLog, MaxActivities)
                 ELSE << >>
  /\ data' = [data EXCEPT ![t] = NoDoc]
  /\ activity' = [activity EXCEPT ![t] = NoActivity]
  /\ clean' = [u \in Threads |-> u = t /\ op[t] = "sync" /\ clean[t]]
  /\ synced' = IF t = "sched" /\ loop = "run" /\ op[t] = "sync" THEN data[t] ELSE synced
  /\ UNCHANGED << ledger, seq, tieOrder, backups, now, op, src, returned,
                  inserted,
                  loop, running, stopCalled, repoStats, out, loops >>

(* --------------------------- save_activity ----------------------------- *)

\* a save_activity that updates the cache first, under the id it expects
\* the ledger to assign, and has not inserted the row yet
SaveCacheFirst(t, input) ==
  /\ t \in Requests \cap sm
  /\ pc[t] = "idle"
  /\ Len(returned) < MaxId
  /\ activity' = [activity EXCEPT ![t] = WithId(input, NextRowId(ledger, seq))]
  /\ op' = [op EXCEPT ![t] = "save"]
  /\ pc' = [pc EXCEPT ![t] = "upd_read"]
  /\ res' = [res EXCEPT ![t] = Running("save")]
  /\ UNCHANGED << ledger, seq, tieOrder, file, lock, backups, now, sm, data,
                  src, clean, returned, inserted, cacheLog,
                  loop, running, stopCalled, repoStats, out, synced, loops >>

\* db.insert_activity(activity_data) returned an id; activity_data['id'] = id
SaveInsert(t, input) ==
  /\ t \in Requests \cap sm
  /\ pc[t] = "idle"
  /\ InsertActivity(input)
  /\ InsertOk(NextRowId(ledger, seq))
  /\ activity' = [activity EXCEPT ![t] = WithId(input, NextRowId(ledger, seq))]
  /\ op' = [op EXCEPT ![t] = "save"]
  /\ pc' = [pc EXCEPT ![t] = "upd_read"]
  /\ res' = [res EXCEPT ![t] = Running("save")]
  /\ clean' = Touched(t)
  /\ UNCHANGED << tieOrder, file, lock, backups, now, sm, data, src, cacheLog,
                  loop, running, stopCalled, repoStats, out, synced, loops >>

\* db.insert_activity raised, and the cache is updated all the same
SaveInsertFailThenCache(t) ==
  /\ t \in Requests \cap sm
  /\ pc[t] = "idle"
  /\ op' = [op EXCEPT ![t] = "save"]
  /\ activity' = [activity EXCEPT ![t] = NoActivity]
  /\ pc' = [pc EXCEPT ![t] = "upd_read"]
  /\ res' = [res EXCEPT ![t] = Running("save")]
  /\ UNCHANGED << ledger, seq, tieOrder, file, lock, backups, now, sm, data,
                  src, clean, returned, inserted, cacheLog,
                  loop, running, stopCalled, repoStats, out, synced, loops >>

\* db.insert_activity raised (database locked, disk fault): return -1
SaveInsertFail(t) ==
  /\ t \in Requests \cap sm
  /\ pc[t] = "idle"
  /\ op' = [op EXCEPT ![t] = "save"]
  /\ res' = [res EXCEPT ![t] = SaveResultOnInsertFailure]
  /\ UNCHANGED << ledger, seq, tieOrder, file, lock, backups, now, sm, pc, data,
                  activity, src, clean, returned, inserted,
                  cacheLog,
                  loop, running, stopCalled, repoStats, out, synced, loops >>

\* _update_json_cache up to the write: data = self._read_json(), insert at
\* the front, cut to the cap, new statistics
UpdateJsonCacheRead(t) ==
  /\ pc[t] = "upd_read"
  /\ data' = [data EXCEPT ![t] = UpdatedData(ReadJson(file, now), activity[t], now)]
  /\ pc' = [pc EXCEPT ![t] = "w_lock"]
  /\ UNCHANGED << ledger, seq, tieOrder, file, lock, backups, now, sm, op,
                  activity, src, res, clean, returned, inserted,
                  cacheLog,
                  loop, running, stopCalled, repoStats, out, synced, loops >>

(* ------------------------- reads of the cache -------------------------- *)

\* limit arguments of get_activities_from_json; 0 is falsy like None
Limits == 0..(MaxActivities + 1)

\* if limit and len(activities) > limit: activities = activities[:limit]
Limited(activities, limit) ==
  IF limit # 0 /\ Len(activities) > limit THEN SubSeq(activities, 1, limit)
  ELSE activities

\* open(json_path, 'r', encoding='utf-8') and json.load: the bytes on disk
\* that are not a document either fail to parse (json.JSONDecodeError, which
\* _read_json catches) or, cut inside a multi-byte character written with
\* ensure_ascii=False, fail to decode (UnicodeDecodeError, which it does not
\* catch)
ReadRaises(f, decodes) == f.st = "torn" /\ ~decodes

\* get_activities_from_json(limit)
GetActivitiesFromJson(t, limit, decodes) ==
  /\ t \in sm
  /\ pc[t] = "idle"
  /\ out' = IF ReadRaises(file, decodes)
            THEN [ call |-> "activities", limit |-> limit, found |-> file.st,
                   raised |-> TRUE ]
            ELSE [ call |-> "activities", limit |-> limit, found |-> file.st,
                   raised |-> FALSE,
                   value |-> Limited(ReadJson(file, now).activities, limit),
                   stored |-> file.doc.activities ]
  /\ UNCHANGED << ledger, seq, tieOrder, file, lock, backups, now, sm, pc, op,
                  data, activity, src, res, clean, returned, inserted, cacheLog,
                  loop, running, stopCalled, repoStats, synced, loops >>

\* get_statistics_from_json()
GetStatisticsFromJson(t, decodes) ==
  /\ t \in sm
  /\ pc[t] = "idle"
  /\ out' = IF ReadRaises(file, decodes)
            THEN [ call |-> "statistics", found |-> file.st, raised |-> TRUE ]
            ELSE [ call |-> "statistics", found |-> file.st, raised |-> FALSE,
                   value |-> ReadJson(file, now).statistics ]
  /\ UNCHANGED << ledger, seq, tieOrder, file, lock, backups, now, sm, pc, op,
                  data, activity, src, res, clean, returned, inserted, cacheLog,
                  loop, running, stopCalled, repoStats, synced, loops >>

(* ------------------------ sync_from_db_to_json ------------------------- *)

\* db.get_all_activities() and the new document, up to the write
SyncRead(t) ==
  /\ t \in sm
  /\ pc[t] = "idle"
  /\ data' = [data EXCEPT ![t] = RebuiltData(ledger, tieOrder, now)]
  /\ op' = [op EXCEPT ![t] = "sync"]
  /\ pc' = [pc EXCEPT ![t] = "w_lock"]
  /\ res' = [res EXCEPT ![t] = Running("sync")]
  /\ clean' = [clean EXCEPT ![t] = TRUE]
  /\ UNCHANGED << ledger, seq, tieOrder, file, lock, backups, now, sm, activity,
                  src, returned, inserted, cacheLog,
                  loop, running, stopCalled, repoStats, out, synced, loops >>

\* the database read raised: return False
SyncReadFail(t) ==
  /\ t \in sm
  /\ pc[t] = "idle"
  /\ op' = [op EXCEPT ![t] = "sync"]
  /\ pc' = [pc EXCEPT ![t] = After(t, "sync")]
  /\ res' = [res EXCEPT ![t] = Running("sync")]
  /\ clean' = [clean EXCEPT ![t] = FALSE]
  /\ UNCHANGED << ledger, seq, tieOrder, file, lock, backups, now, sm, data,
                  activity, src, returned, inserted, cacheLog,
                  loop, running, stopCalled, repoStats, out, synced, loops >>

(* ------------------------------ backups -------------------------------- *)

Names(b) == DOMAIN b

\* sorted(names)[backup_count:] are removed: the newest go
PrunedNewest(b, keep) ==
  LET kept == { n \in Names(b) : Cardinality({ m \in Names(b) : m < n }) < keep }
  IN [ n \in kept |-> b[n] ]

\* sorted(names, reverse=True)[backup_count:] are removed
Pruned(b, keep) ==
  LET kept == { n \in Names(b) : Cardinality({ m \in Names(b) : m > n }) < keep }
  IN [ n \in kept |-> b[n] ]

\* sorted(names)[0]: the oldest snapshot
Earliest(b) == CHOOSE n \in Names(b) : \A m \in Names(b) : n <= m

\* sorted(names, reverse=True)[0]
Latest(b) == CHOOSE n \in Names(b) : \A m \in Names(b) : m <= n

\* where the sync thread goes on after backup_json: time.sleep in run's
\* loop, or back to its caller
AfterBackup(t) == IF loop = "run" THEN "sleep" ELSE "idle"

\* backup_json, called by BackgroundSyncThread.run after the sync
BackupJson(t) ==
  /\ pc[t] = "backup"
  /\ backups' = IF file.st = "absent" THEN backups
                ELSE Pruned((now :> file) @@ backups, BackupCount)
  /\ pc' = [pc EXCEPT ![t] = AfterBackup(t)]
  /\ UNCHANGED << ledger, seq, tieOrder, file, lock, now, sm, op, data, activity,
                  src, res, clean, returned, inserted, cacheLog,
                  loop, running, stopCalled, repoStats, out, synced, loops >>

\* backup_json whose makedirs or copy2 raised before the new file existed
\* (created = FALSE), or whose listdir or os.remove raised after the copy
\* (created = TRUE): the exception is printed and nothing is removed
BackupJsonFault(t, created) ==
  /\ pc[t] = "backup"
  /\ file.st # "absent"
  /\ backups' = IF created THEN (now :> file) @@ backups ELSE backups
  /\ pc' = [pc EXCEPT ![t] = AfterBackup(t)]
  /\ UNCHANGED << ledger, seq, tieOrder, file, lock, now, sm, op, data, activity,
                  src, res, clean, returned, inserted, cacheLog,
                  loop, running, stopCalled, repoStats, out, synced, loops >>

\* a restore that reports success although it found no snapshot
RestoreNotFoundTrue == [ Running("restore") EXCEPT !.ret = 1 ]

\* if not backups: return False / if not os.path.exists(backup_file): return
\* False; os.listdir of a backups directory that does not exist raises and
\* the handler returns False as well
RestoreNotFound == Running("restore")

\* restore_from_backup(backup_file) up to shutil.copy2 opening both files;
\* name 0 - 1 stands for backup_file = None
RestoreOpen(t, name) ==
  /\ t \in Requests \cap sm
  /\ pc[t] = "idle"
  /\ op' = [op EXCEPT ![t] = "restore"]
  /\ LET chosen == IF name = -1 /\ Names(backups) # {} THEN Latest(backups) ELSE name
     IN IF chosen \in Names(backups)
        THEN /\ src' = [src EXCEPT ![t] = backups[chosen]]
             /\ file' = OpenForWrite(file)
             /\ pc' = [pc EXCEPT ![t] = "r_copy"]
             /\ res' = [res EXCEPT ![t] = [ Running("restore") EXCEPT !.wrote = TRUE ]]
             /\ clean' = Touched(t)
        ELSE /\ res' = [res EXCEPT ![t] = RestoreNotFound]
             /\ UNCHANGED << src, file, pc, clean >>
  /\ UNCHANGED << ledger, seq, tieOrder, lock, backups, now, sm, data, activity,
                  returned, inserted, cacheLog,
                  loop, running, stopCalled, repoStats, out, synced, loops >>

\* shutil.copy2 writes the backup's bytes; return True
RestoreCopy(t) ==
  /\ pc[t] = "r_copy"
  /\ file' = WriteBytes(file, src[t])
  /\ pc' = [pc EXCEPT ![t] = "idle"]
  /\ res' = [res EXCEPT ![t].ret = 1]
  /\ src' = [src EXCEPT ![t] = Absent]
  /\ clean' = Touched(t)
  /\ cacheLog' = << >>
  /\ UNCHANGED << ledger, seq, tieOrder, lock, backups, now, sm, op, data,
                  activity, returned, inserted,
                  loop, running, stopCalled, repoStats, out, synced, loops >>

(* ------------------------ BackgroundSyncThread ------------------------- *)

\* sync_thread.start(): the thread exists, run() has not executed yet
ThreadStart ==
  /\ loop = "none"
  /\ "sched" \in sm
  /\ pc["sched"] = "idle"
  /\ loop' = "started"
  /\ loops' = loops + 1
  /\ UNCHANGED << ledger, seq, tieOrder, file, lock, backups, now, sm, pc, op,
                  data, activity, src, res, clean, returned, inserted, cacheLog,
                  running, stopCalled, repoStats, out, synced >>

\* start_background_sync() called once more (create_app run again, or the
\* script loaded again by the reloader): StorageManager() finds the file,
\* and one more BackgroundSyncThread is created and started
StartBackgroundSyncAgain ==
  /\ loop # "none"
  /\ file.st # "absent"
  /\ loops < MaxLoops
  /\ loops' = loops + 1
  /\ UNCHANGED << ledger, seq, tieOrder, file, lock, backups, now, sm, pc, op,
                  data, activity, src, res, clean, returned, inserted, cacheLog,
                  loop, running, stopCalled, repoStats, out, synced >>

\* run(): self.running = True
RunBegin ==
  /\ loop = "started"
  /\ loop' = "run"
  /\ running' = TRUE
  /\ UNCHANGED << ledger, seq, tieOrder, file, lock, backups, now, sm, pc, op,
                  data, activity, src, res, clean, returned, inserted, cacheLog,
                  stopCalled, repoStats, out, synced, loops >>

\* stop(): self.running = False
Stop ==
  /\ loop # "none"
  /\ ~stopCalled
  /\ running' = FALSE
  /\ stopCalled' = TRUE
  /\ UNCHANGED << ledger, seq, tieOrder, file, lock, backups, now, sm, pc, op,
                  data, activity, src, res, clean, returned, inserted, cacheLog,
                  loop, repoStats, out, synced, loops >>

\* while self.running: the test passes and sync_from_db_to_json is called
RunSync ==
  /\ loop = "run"
  /\ running
  /\ SyncRead("sched")

\* an exception of the cycle leaves run(): the thread ends
RunSyncFailRaises ==
  /\ loop = "run"
  /\ running
  /\ pc["sched"] = "idle"
  /\ loop' = "done"
  /\ UNCHANGED << ledger, seq, tieOrder, file, lock, backups, now, sm, pc, op,
                  data, activity, src, res, clean, returned, inserted, cacheLog,
                  running, stopCalled, repoStats, out, synced, loops >>

\* the test passes and the database read of sync_from_db_to_json raises:
\* it returns False and the cycle goes on to backup_json
RunSyncFail ==
  /\ loop = "run"
  /\ running
  /\ SyncReadFail("sched")

\* time.sleep(self.interval_seconds), then back to the while test
Sleep(t) ==
  /\ pc[t] = "sleep"
  /\ now < MaxClock
  /\ now' = now + 1
  /\ pc' = [pc EXCEPT ![t] = "idle"]
  /\ UNCHANGED << ledger, seq, tieOrder, file, lock, backups, sm, op, data,
                  activity, src, res, clean, returned, inserted, cacheLog,
                  loop, running, stopCalled, repoStats, out, synced, loops >>

\* while self.running: the test fails and run() returns
RunReturn ==
  /\ loop = "run"
  /\ pc["sched"] = "idle"
  /\ ~running
  /\ loop' = "done"
  /\ UNCHANGED << ledger, seq, tieOrder, file, lock, backups, now, sm, pc, op,
                  data, activity, src, res, clean, returned, inserted, cacheLog,
                  running, stopCalled, repoStats, out, synced, loops >>

(* --------------------------- specifications --------------------------- *)

\* the state once req1 and req2 have each constructed a StorageManager
InitConstructed ==
  /\ ledger = {}
  /\ seq = 0
  /\ tieOrder \in {"asc", "desc"}
  /\ file = Complete(InitialData(0))
  /\ lock = NoThread
  /\ backups = << >>
  /\ now = 0
  /\ sm = Requests
  /\ pc = [t \in Threads |-> "idle"]
  /\ op = [t \in Threads |-> "none"]
  /\ data = [t \in Threads |-> NoDoc]
  /\ activity = [t \in Threads |-> NoActivity]
  /\ src = [t \in Threads |-> Absent]
  /\ res = [t \in Threads |-> NoRes]
  /\ clean = [t \in Threads |-> FALSE]
  /\ returned = << >>
  /\ inserted = << >>
  /\ cacheLog = << >>
  /\ loop = "none"
  /\ running = FALSE
  /\ stopCalled = FALSE
  /\ repoStats = [p \in Repos |-> NoTotals]
  /\ out = NoOut
  /\ synced = NoDoc
  /\ loops = 0

\* every writer of records.json: a request thread that constructs a
\* manager, records activities and restores backups, and the background
\* sync thread that rebuilds and backs up
Next ==
  \/ \E t \in {"req1", "sched"} : InitJsonFile(t)
  \/ \E t \in {"req1", "sched"} : WriteAcquire(t)
  \/ \E t \in {"req1", "sched"} : WriteTimeout(t)
  \/ \E t \in {"req1", "sched"} : WriteDump(t)
  \/ \E i \in Inputs : SaveInsert("req1", i)
  \/ UpdateJsonCacheRead("req1")
  \/ SyncRead("sched")
  \/ BackupJson("sched")
  \/ \E n \in (0 - 1)..1 : RestoreOpen("req1", n)
  \/ RestoreCopy("req1")

Spec == Init /\ [][Next]_vars

\* two request threads that record activities, with every fault of the
\* database and of the cache write
NextSave ==
  \/ \E d \in PurgeDays : DeleteOldActivities(d)
  \/ \E t \in Requests, i \in Inputs : SaveInsert(t, i)
  \/ \E t \in Requests : SaveInsertFail(t)
  \/ \E t \in Requests : UpdateJsonCacheRead(t)
  \/ \E t \in Requests : WriteAcquire(t)
  \/ \E t \in Requests : WriteTimeout(t)
  \/ \E t \in Requests : WriteFault(t)
  \/ \E t \in Requests : WriteDump(t)

SpecSave == InitConstructed /\ [][NextSave]_vars

\* the writers that go through _write_json, side by side: construction,
\* incremental updates (req1) and sync_from_db_to_json (req2), with the
\* hooks filling the ledger
NextLocked ==
  \/ \E i \in Inputs : HookInsert(i)
  \/ \E t \in Requests : InitJsonFile(t)
  \/ \E i \in Inputs : SaveInsert("req1", i)
  \/ UpdateJsonCacheRead("req1")
  \/ SyncRead("req2")
  \/ \E t \in Requests : WriteAcquire(t)
  \/ \E t \in Requests : WriteTimeout(t)
  \/ \E t \in Requests : WriteDump(t)

SpecLocked == Init /\ [][NextLocked]_vars

\* the ledger and everything that inserts into it or deletes from it
NextLedger ==
  \/ Tick
  \/ \E i \in Inputs : HookInsert(i)
  \/ \E d \in PurgeDays : DeleteOldActivities(d)
  \/ \E i \in Inputs : SaveInsert("req1", i)
  \/ SaveInsertFail("req1")
  \/ UpdateJsonCacheRead("req1")
  \/ WriteAcquire("req1")
  \/ WriteFault("req1")
  \/ WriteDump("req1")

SpecLedger == InitConstructed /\ [][NextLedger]_vars

\* the background sync thread from start() on: cycles of rebuild, backup
\* and sleep with their faults, stop(), and the hooks filling the ledger
NextSched ==
  \/ \E i \in Inputs : HookInsert(i)
  \/ InitJsonFile("sched")
  \/ ThreadStart
  \/ RunBegin
  \/ Stop
  \/ RunSync
  \/ RunSyncFail
  \/ WriteAcquire("sched")
  \/ WriteFault("sched")
  \/ WriteDump("sched")
  \/ BackupJson("sched")
  \/ \E c \in BOOLEAN : BackupJsonFault("sched", c)
  \/ Sleep("sched")
  \/ RunReturn

SpecSched == Init /\ [][NextSched]_vars

\* a step of the background sync thread
SchedStep ==
  \/ RunBegin
  \/ RunSync
  \/ RunSyncFail
  \/ WriteAcquire("sched")
  \/ WriteFault("sched")
  \/ WriteDump("sched")
  \/ BackupJson("sched")
  \/ \E c \in BOOLEAN : BackupJsonFault("sched", c)
  \/ Sleep("sched")
  \/ RunReturn

\* the background sync thread alone, over a ledger nobody writes
NextSchedAlone ==
  \/ InitJsonFile("sched")
  \/ ThreadStart
  \/ Stop
  \/ SchedStep

\* the thread, once started, is scheduled again and again
SpecSchedLive == Init /\ [][NextSchedAlone]_vars /\ WF_vars(SchedStep)

\* backup_file arguments of restore_from_backup: 0 - 1 for None, the
\* timestamps for the names
RestoreNames == (0 - 1)..MaxClock

\* the background sync thread making its snapshots while a request thread
\* restores them
NextRestore ==
  \/ \E t \in {"req1", "sched"} : InitJsonFile(t)
  \/ ThreadStart
  \/ Stop
  \/ SchedStep
  \/ \E n \in RestoreNames : RestoreOpen("req1", n)
  \/ RestoreCopy("req1")

SpecRestore == Init /\ [][NextRestore]_vars

\* a request thread that records activities while another one reads the
\* cache
NextCache ==
  \/ \E t \in Requests : InitJsonFile(t)
  \/ \E i \in Inputs : SaveInsert("req1", i)
  \/ UpdateJsonCacheRead("req1")
  \/ \E t \in Requests : WriteAcquire(t)
  \/ \E t \in Requests : WriteFlush(t)
  \/ \E t \in Requests : WriteDump(t)
  \/ \E l \in Limits, d \in BOOLEAN : GetActivitiesFromJson("req2", l, d)
  \/ \E d \in BOOLEAN : GetStatisticsFromJson("req2", d)

SpecCache == Init /\ [][NextCache]_vars

\* a request thread that records activities while another one purges the
\* ledger and rebuilds the cache
NextPurge ==
  \/ \E i \in Inputs : SaveInsert("req1", i)
  \/ UpdateJsonCacheRead("req1")
  \/ \E t \in Requests : WriteAcquire(t)
  \/ \E t \in Requests : WriteTimeout(t)
  \/ \E t \in Requests : WriteDump(t)
  \/ \E d \in PurgeDays : PurgeOlderThan("req2", d)
  \/ SyncRead("req2")

SpecPurge == InitConstructed /\ [][NextPurge]_vars

\* the ledger, filled by the hooks and purged, and then the list queries
\* on it
NextList ==
  \/ \E i \in Inputs : out = NoOut /\ HookInsert(i)
  \/ \E d \in PurgeDays : out = NoOut /\ DeleteOldActivities(d)
  \/ \E p \in Pages, n \in PageSizes, ty \in TypeFilters, rp \in RepoFilters,
        sd \in StartDates, ed \in EndDates : ListActivities(p, n, ty, rp, sd, ed)

SpecList == InitConstructed /\ [][NextList]_vars

\* the ledger, filled by the hooks and purged, and the totals of the
\* monitored repos recomputed from it
NextRepos ==
  \/ \E i \in Inputs : HookInsert(i)
  \/ \E d \in PurgeDays : DeleteOldActivities(d)
  \/ \E p \in Repos : UpdateRepoStats(p)

SpecRepos == InitConstructed /\ [][NextRepos]_vars

\* the background sync thread in its cycles while a request thread records
\* activities through save_activity; create_app starts the thread before a
\* request is served
NextCycle ==
  \/ InitJsonFile("sched")
  \/ loop # "none" /\ InitJsonFile("req1")
  \/ ThreadStart
  \/ RunBegin
  \/ RunSync
  \/ RunSyncFail
  \/ WriteAcquire("sched")
  \/ WriteTimeout("sched")
  \/ WriteDump("sched")
  \/ BackupJson("sched")
  \/ Sleep("sched")
  \/ \E i \in Inputs : SaveInsert("req1", i)
  \/ UpdateJsonCacheRead("req1")
  \/ WriteAcquire("req1")
  \/ WriteTimeout("req1")
  \/ WriteDump("req1")

SpecCycle == Init /\ [][NextCycle]_vars

\* an incremental update and a rebuild side by side, with every way
\* _write_json can end: written, lock timeout, open() failing, json.dump
\* failing before or after bytes reached the disk
NextFault ==
  \/ \E i \in Inputs : SaveInsert("req1", i)
  \/ UpdateJsonCacheRead("req1")
  \/ SyncRead("req2")
  \/ \E t \in Requests : WriteAcquire(t)
  \/ \E t \in Requests : WriteTimeout(t)
  \/ \E t \in Requests : WriteFault(t)
  \/ \E t \in Requests : WriteFlush(t)
  \/ \E t \in Requests : WriteDumpFault(t)
  \/ \E t \in Requests : WriteDump(t)

SpecFault == InitConstructed /\ [][NextFault]_vars

\* start_background_sync called again and again while the first thread
\* runs its cycles
NextStart ==
  \/ InitJsonFile("sched")
  \/ ThreadStart
  \/ StartBackgroundSyncAgain
  \/ Stop
  \/ SchedStep

SpecStart == Init /\ [][NextStart]_vars

\* a rebuild followed by its backup, again and again, beside a request
\* thread that restores the snapshot and purges the ledger the push hook
\* fills;
\* the thread's manager is constructed once the application has made its own
NextFrame ==
  \/ \E i \in PushInputs : HookInsert(i)
  \/ InitJsonFile("sched")
  \/ "sched" \in sm /\ InitJsonFile("req1")
  \/ SyncRead("sched")
  \/ WriteAcquire("sched")
  \/ WriteDump("sched")
  \/ BackupJson("sched")
  \/ \E n \in RestoreNames : RestoreOpen("req1", n)
  \/ RestoreCopy("req1")
  \/ \E d \in PurgeDays : PurgeOlderThan("req1", d)

SpecFrame == Init /\ [][NextFrame]_vars

TypeOK ==
  /\ seq \in 0..MaxId
  /\ lock \in Threads \cup {NoThread}
  /\ file.st \in {"absent", "empty", "ok", "torn"}

(* ------------------------------ claims --------------------------------- *)

Commits(rows) == Cardinality({ r \in rows : r.activity_type = "commit" })
Pushes(rows) == Cardinality({ r \in rows : r.activity_type = "push" })

\* t's last method was a sync that returned True, and nobody else has
\* written the ledger or the file since its database read
SyncCompleted(t) == res[t].op = "sync" /\ res[t].ret = 1 /\ clean[t]

\* C1: after a reconciliation that succeeded with no concurrent writer, the
\* document's total_commits and total_pushes are the ledger's commit and
\* push counts, whatever the document held before
C1_ReconciliationTotals ==
  \A t \in Threads :
    SyncCompleted(t) =>
      /\ file.st = "ok"
      /\ file.doc.statistics.total_commits = Commits(ledger)
      /\ file.doc.statistics.total_pushes = Pushes(ledger)

\* a reconciliation has replaced a parseable document whose totals were not
\* the ledger's, and the ledger holds commits and pushes
C1_Witness ==
  \E t \in Threads :
    /\ SyncCompleted(t)
    /\ res[t].prev = "diverged"
    /\ Commits(ledger) > 0
    /\ Pushes(ledger) > 0

\* the ids of the n most recently inserted rows
LastInserted(rows, n) ==
  { r.id : r \in { q \in rows : Cardinality({ x \in rows : x.id > q.id }) < n } }

\* C2: after a successful reconciliation the activities are the N most
\* recently inserted ledger records, so there are at most N of them
C2_ActivitiesAreLastN ==
  \A t \in Threads :
    SyncCompleted(t) =>
      /\ file.st = "ok"
      /\ Len(file.doc.activities) <= MaxActivities
      /\ Ids(file.doc.activities) = LastInserted(ledger, MaxActivities)

\* C3: once the save_activity calls are over, the activities are the records
\* whose cache update went through, newest first and cut to the cap N, the
\* last one written at the front
C3_CacheCap ==
  (\A t \in Requests : pc[t] = "idle") =>
    /\ file.st = "ok"
    /\ Len(file.doc.activities) <= MaxActivities
    /\ file.doc.activities = cacheLog

\* C4: no update is lost: while nobody is writing, every record among the
\* last N whose cache update went through is in the activities
C4_NoLostUpdate ==
  (\A t \in Requests : pc[t] # "w_dump") =>
    Ids(cacheLog) \subseteq Ids(file.doc.activities)

\* C5: at most one writer is inside _write_json's critical section, and
\* while none is the file is one complete document (or not yet created)
C5_LockExclusion ==
  /\ \A t, u \in Threads : (pc[t] = "w_dump" /\ pc[u] = "w_dump") => t = u
  /\ \A t \in Threads : pc[t] = "w_dump" => lock = t
  /\ (\A t \in Threads : pc[t] # "w_dump") => file.st \in {"ok", "absent"}

\* an incremental update is inside the critical section while a rebuild
\* waits for the lock
C5_Witness ==
  \E t, u \in Threads :
    /\ pc[t] = "w_dump" /\ op[t] = "save"
    /\ pc[u] = "w_lock" /\ op[u] = "sync"

Range(s) == { s[i] : i \in DOMAIN s }

\* C6: the ids insert_activity returns increase strictly, a row that has not
\* been purged reads back with the fields it was inserted with, and an id
\* never assigned reads back as absent
C6_LedgerDurability ==
  /\ \A i, j \in DOMAIN returned : i < j => returned[i] < returned[j]
  /\ DOMAIN inserted \subseteq Range(returned)
  /\ \A id \in DOMAIN inserted :
       GetActivityById(ledger, id) = WithId(inserted[id], id)
  /\ \A id \in 1..(MaxId + 1) :
       id \notin Range(returned) => GetActivityById(ledger, id) = None

\* a row was purged and a later insert got a larger id and is still there
C6_Witness ==
  \E i, j \in DOMAIN returned :
    /\ i < j
    /\ returned[i] \notin DOMAIN inserted
    /\ returned[j] \in DOMAIN inserted
    /\ GetActivityById(ledger, returned[j]).id = returned[j]

\* C7: a save_activity whose ledger insert failed returns -1 and leaves the
\* cache document as it was
C7_InsertFailureLeavesCache ==
  [][ \A t \in Requests :
        ( /\ res'[t] # res[t]
          /\ res'[t].op = "save"
          /\ res'[t].id = 0
          /\ pc'[t] = "idle" )
        => (res'[t].ret = -1 /\ ~res'[t].wrote /\ file' = file) ]_vars

\* a save_activity failed at the insert while the cache held activities
C7_Witness ==
  \E t \in Requests :
    /\ res[t].op = "save" /\ res[t].ret = -1 /\ pc[t] = "idle"
    /\ file.st = "ok" /\ file.doc.activities # << >>

\* C8: a save_activity whose insert succeeded and whose cache update failed
\* returns the ledger's id, and the record is in the ledger unless purged
C8_CacheFailureKeepsId ==
  \A t \in Requests :
    (pc[t] = "idle" /\ res[t].op = "save" /\ res[t].id > 0 /\ ~res[t].cacheOk) =>
      /\ res[t].ret = res[t].id
      /\ res[t].ret > 0
      /\ res[t].id \in Range(returned)
      /\ res[t].id \in DOMAIN inserted =>
           GetActivityById(ledger, res[t].id) = WithId(inserted[res[t].id], res[t].id)

\* a cache update timed out on the lock, the record is in the ledger and
\* not in the cache
C8_Witness ==
  \E t \in Requests :
    /\ pc[t] = "idle" /\ res[t].op = "save" /\ res[t].id > 0 /\ ~res[t].cacheOk
    /\ ~res[t].wrote
    /\ GetActivityById(ledger, res[t].id).id = res[t].id
    /\ \A u \in Requests : pc[u] = "idle"
    /\ res[t].id \notin Ids(file.doc.activities)

\* C9: every row that enters the ledger is inserted by save_activity, which
\* goes on to the incremental cache update of that row
C9_AllViaCoordinator ==
  [][ \A r \in ledger' \ ledger :
        \E t \in Threads : pc'[t] = "upd_read" /\ activity'[t] = r ]_vars

\* C10: whenever the file holds a document, its statistics are
\* _calculate_statistics of its activities
C10_StatisticsOfActivities ==
  file.st = "ok" => file.doc.statistics = CalculateStatistics(file.doc.activities)

\* a rebuilt document longer than the cap came back from a backup
C10_Witness ==
  /\ res["req1"].op = "restore" /\ res["req1"].ret = 1 /\ pc["req1"] = "idle"
  /\ file.st = "ok"
  /\ Len(file.doc.activities) > MaxActivities
  /\ file.doc.statistics.total_commits + file.doc.statistics.total_pushes > MaxActivities

\* t, whose last reconciliation succeeded undisturbed, starts the next one
SyncAgain(t) ==
  /\ SyncCompleted(t)
  /\ pc[t] = "idle"
  /\ pc'[t] = "w_lock"
  /\ op'[t] = "sync"

NamesWith(b, name) == Names(b) \cup {name}

C14_LoopContinues ==
  /\ [](loop = "done" => stopCalled)
  /\ \A n \in 0..(MaxClock - 1) :
       (loop = "run" /\ now = n /\ ~stopCalled)
         ~> (stopCalled \/ (now > n /\ pc["sched"] \notin {"idle", "sleep"}))

\* the database read of a cycle after the first has failed and the thread
\* is on its way to the backup
C14_Witness ==
  /\ loop = "run" /\ ~stopCalled
  /\ now > 0
  /\ pc["sched"] = "backup"
  /\ res["sched"].op = "sync" /\ res["sched"].ret = 0 /\ ~res["sched"].wrote

\* the while test passes and a cycle begins
CycleBegins ==
  /\ loop = "run"
  /\ pc["sched"] = "idle"
  /\ pc'["sched"] # "idle"

\* C15: once stop() has been called no further cycle begins
C15_StopHalts ==
  [][ stopCalled => ~CycleBegins ]_vars

\* C16: restore_from_backup of an existing snapshot, or without a name of
\* the snapshot with the greatest name, copies that snapshot; when nobody
\* else has written the file since the copy opened it, the file then holds
\* the snapshot's content and the call returns True
C16_RestoreCopiesSnapshot ==
  [][ \A t \in Requests :
        /\ \A n \in Names(backups) :
             RestoreOpen(t, n) => (pc'[t] = "r_copy" /\ src'[t] = backups[n])
        /\ (RestoreOpen(t, 0 - 1) /\ Names(backups) # {}) =>
             \E k \in Names(backups) :
               /\ \A m \in Names(backups) : m <= k
               /\ pc'[t] = "r_copy"
               /\ src'[t] = backups[k]
        /\ (RestoreCopy(t) /\ file.st = "empty") =>
             (file' = src[t] /\ res'[t].op = "restore" /\ res'[t].ret = 1) ]_vars

\* a restore without a name has returned True while two snapshots exist,
\* and the file holds the newer one, which is not the older one
C16_Witness ==
  \E t \in Requests :
    /\ res[t].op = "restore" /\ res[t].ret = 1 /\ pc[t] = "idle"
    /\ Cardinality(Names(backups)) > 1
    /\ file = backups[Latest(backups)]
    /\ file.st = "ok"
    /\ file # backups[Earliest(backups)]

\* the snapshot restore_from_backup(name) looks for does not exist
Missing(name) ==
  IF name = 0 - 1 THEN Names(backups) = {} ELSE name \notin Names(backups)

\* C17: restore_from_backup returns False and leaves the file as it is when
\* there is no snapshot at all or none of the name asked for
C17_RestoreMissing ==
  [][ \A t \in Requests, n \in RestoreNames :
        (RestoreOpen(t, n) /\ Missing(n)) =>
          /\ file' = file
          /\ backups' = backups
          /\ pc'[t] = "idle"
          /\ res'[t].op = "restore"
          /\ res'[t].ret = 0
          /\ ~res'[t].wrote ]_vars

\* a restore has returned False although snapshots exist (the name asked
\* for is not among them), and the file holds a document
C17_Witness ==
  \E t \in Requests :
    /\ res[t].op = "restore" /\ res[t].ret = 0 /\ ~res[t].wrote /\ pc[t] = "idle"
    /\ Names(backups) # {}
    /\ file.st = "ok"

\* one commit has been recorded through save_activity, the cache counts it
\* and nobody is at work
OneCommitRecorded ==
  /\ \A t \in Threads : pc[t] = "idle"
  /\ Cardinality(ledger) = 1
  /\ Commits(ledger) = 1
  /\ file.st = "ok"
  /\ file.doc.statistics.total_commits = 1
  /\ Ids(file.doc.activities) = { r.id : r \in ledger }

\* C13: delete_old_activities(0) right after one commit was recorded leaves
\* no record of that repo in the ledger, while the cache still reports
\* total_commits = 1
C13_PurgeThenStale ==
  [][ \A t \in Requests :
        (OneCommitRecorded /\ PurgeOlderThan(t, 0)) =>
          /\ \A r \in ledger' : \A q \in ledger : r.repo_path # q.repo_path
          /\ file'.doc.statistics.total_commits = 1 ]_vars

\* C20: a cache read never fails; over a file that is missing or is not a
\* document it returns the empty default, with a positive limit it returns
\* the first min(limit, len) stored activities
C20_ReadsTolerant ==
  out.call \in {"activities", "statistics"} =>
    /\ ~out.raised
    /\ (out.call = "statistics" /\ out.found # "ok") => out.value = EmptyStatistics
    /\ (out.call = "activities" /\ out.found # "ok") => out.value = << >>
    /\ (out.call = "activities" /\ out.found = "ok" /\ out.limit > 0) =>
         out.value = SubSeq(out.stored, 1, Min(out.limit, Len(out.stored)))

\* the rows the filter of the last list query selects, of those the
\* ledger held when it ran
Selected ==
  { r \in out.rows :
      /\ out.activity_type # "" => r.activity_type = out.activity_type
      /\ out.repo_path # "" => r.repo_path = out.repo_path
      /\ out.start_date # NoDate => r.timestamp >= out.start_date
      /\ out.end_date # NoDate => r.timestamp <= out.end_date }

\* the selected rows, newest timestamp first, from position from to
\* position to
Page(from, to) ==
  LET ordered == OrderByTimestampDesc(Selected, tieOrder)
  IN SubSeq(ordered, Min(from, Len(ordered) + 1), Min(to, Len(ordered)))

\* C18 as stated: whatever the page and the page size, get_activities
\* returns at most page_size of the matching records, those after the
\* first (page - 1) * page_size in descending timestamp order, and total is
\* the number of matching records
C18_ListAnyPageSize ==
  out.call = "list" =>
    LET skip == (out.page - 1) * out.page_size
    IN /\ out.value.total = Cardinality(Selected)
       /\ Len(out.value.activities) <= out.page_size
       /\ out.value.activities = Page(skip + 1, skip + out.page_size)

\* C18: for a page size that is not negative get_activities returns at most
\* page_size matching records, those after the first (page - 1) * page_size
\* in descending timestamp order; for a negative page size it returns every
\* matching record in that order; total is the number of matching records
\* in both cases
C18_ListQuery ==
  out.call = "list" =>
    LET skip == (out.page - 1) * out.page_size
    IN /\ out.value.total = Cardinality(Selected)
       /\ \A i, j \in DOMAIN out.value.activities :
            i < j => out.value.activities[i].timestamp >= out.value.activities[j].timestamp
       /\ out.page_size >= 0 =>
            /\ Len(out.value.activities) <= out.page_size
            /\ out.value.activities = Page(skip + 1, skip + out.page_size)
       /\ out.page_size < 0 =>
            out.value.activities = Page(1, Cardinality(Selected))

\* the second page of a filtered query holds one record and leaves
\* another matching one on the first page, while the ledger also holds a
\* record the filter rejects
C18_Witness ==
  /\ out.call = "list"
  /\ out.page = 2 /\ out.page_size = 1
  /\ out.activity_type # ""
  /\ Len(out.value.activities) = 1
  /\ out.value.total = 2
  /\ Cardinality(out.rows) > out.value.total

\* C19: after update_repo_stats the repo's total_commits and total_pushes
\* are the numbers of its commit and push records in the ledger
C19_RepoTotalsDerived ==
  out.call = "repo_stats" =>
    /\ out.value.total_commits =
         Cardinality({ r \in out.rows :
                         r.repo_path = out.repo_path /\ r.activity_type = "commit" })
    /\ out.value.total_pushes =
         Cardinality({ r \in out.rows :
                         r.repo_path = out.repo_path /\ r.activity_type = "push" })

\* C21: a snapshot is made only by the backup step of a cycle, which comes
\* after the cycle's rebuild, and when that rebuild wrote a document the
\* snapshot holds that document
C21_SnapshotOfRebuild ==
  [][ backups' # backups =>
        /\ pc["sched"] = "backup"
        /\ res["sched"].op = "sync"
        /\ res["sched"].ret = 1 => backups'[now] = Complete(synced) ]_vars

\* t starts a reconciliation: the ledger is read and the document built
SyncStarts(t) == pc[t] = "idle" /\ pc'[t] = "w_lock" /\ op'[t] = "sync"

\* t's reconciliation writes its document and returns True
SyncWrites(t) == op[t] = "sync" /\ pc[t] = "w_dump" /\ pc'[t] # "w_dump"

\* the document d holds the ledger record r and counts it
Healed(r, d) ==
  /\ r \in Range(d.activities)
  /\ d.statistics.total_commits = CountType(d.activities, "commit")
  /\ d.statistics.total_pushes = CountType(d.activities, "push")

\* C22: a reconciliation that starts after a record's ledger insert builds
\* a document that holds and counts the record, keeps that document until
\* it has the lock, and on success leaves it in the file, whatever became
\* of the record's incremental update; a reconciliation that nobody has
\* written beside leaves the activities and the totals of the ledger
C22_DriftHealed ==
  [][ \A t \in Threads :
        /\ SyncStarts(t) => \A r \in ledger : Healed(r, data'[t])
        /\ (op[t] = "sync" /\ pc[t] = "w_lock" /\ pc'[t] = "w_dump") => data'[t] = data[t]
        /\ SyncWrites(t) => file' = Complete(data[t])
        /\ SyncCompleted(t)' =>
             /\ Range(file'.doc.activities) = ledger'
             /\ file'.doc.statistics.total_commits = Commits(ledger')
             /\ file'.doc.statistics.total_pushes = Pushes(ledger') ]_vars

\* a save_activity returned its id after its cache update timed out on the
\* lock, and a reconciliation that found the file without the record has
\* written it into the cache
C22_Witness ==
  \E t, u \in Threads :
    /\ SyncCompleted(t) /\ res[t].prev = "diverged"
    /\ pc[u] = "idle" /\ res[u].op = "save" /\ res[u].id > 0 /\ ~res[u].cacheOk
    /\ file.st = "ok"
    /\ res[u].id \in Ids(file.doc.activities)

\* C23: whenever no thread is inside _write_json's critical section the
\* lock is free, so that a writer waiting for it can take it, whatever
\* fault ended the writes before
C23_LockReleased ==
  (\A t \in Threads : pc[t] # "w_dump") =>
    /\ lock = NoThread
    /\ \A t \in Threads : LockFree(t)

\* a rebuild's json.dump failed after it had truncated the file, and the
\* incremental update that waited for the lock is now inside the critical
\* section
C23_Witness ==
  \E t, u \in Threads :
    /\ pc[t] = "idle" /\ res[t].op = "sync" /\ res[t].wrote /\ res[t].ret = 0
    /\ pc[u] = "w_dump" /\ op[u] = "save" /\ lock = u
    /\ ~clean[t]

\* t gives up waiting for the lock another thread has held for the whole
\* timeout
TimesOut(t) == pc[t] = "w_lock" /\ lock \notin {NoThread, t} /\ pc'[t] # "w_lock"

\* what a timed out call leaves: the file as it was, nothing written by
\* the call, False from sync_from_db_to_json and from the construction,
\* the ledger's id without a cache entry from save_activity
Abandoned(t) ==
  /\ file' = file
  /\ lock' = lock
  /\ ~res'[t].wrote
  /\ op[t] \in {"sync", "init"} => res'[t].ret = 0
  /\ op[t] = "save" => (res'[t].ret = res'[t].id /\ ~res'[t].cacheOk)
  /\ pc'[t] = After(t, op[t])

\* a thread that waits for the lock either gets it or times out
WaitEnds(t) == pc[t] = "w_lock" => ENABLED (WriteAcquire(t) \/ WriteTimeout(t))

\* C24 as stated: a write that times out on the lock is abandoned and
\* reported as failed, the wait ends, and nothing ever writes the file
\* without holding the lock
C24_NoWriteWithoutLock ==
  [][ /\ \A t \in Threads : (TimesOut(t) => Abandoned(t)) /\ WaitEnds(t)
      /\ file' # file => \E t \in Threads : lock = t \/ lock' = t ]_vars

\* C24: a write that times out on the lock is abandoned and reported as
\* failed, the wait ends, and the file is written only by the holder of
\* the lock or by restore_from_backup, which copies without the lock
C24_LockTimeout ==
  [][ /\ \A t \in Threads : (TimesOut(t) => Abandoned(t)) /\ WaitEnds(t)
      /\ file' # file =>
           \E t \in Threads :
             \/ (lock = t \/ lock' = t) /\ op[t] \in {"init", "save", "sync"}
             \/ op'[t] = "restore" /\ (pc[t] = "r_copy" \/ pc'[t] = "r_copy") ]_vars

\* the sync thread's rebuild has timed out and returned False while the
\* incremental update that holds the lock is still writing
C24_Witness ==
  /\ pc["sched"] = "backup"
  /\ res["sched"].op = "sync" /\ res["sched"].ret = 0 /\ ~res["sched"].wrote
  /\ pc["req1"] = "w_dump" /\ op["req1"] = "save" /\ lock = "req1"

\* C25: every snapshot holds one complete document, never the bytes of a
\* file that was truncated or partly written when it was copied
C25_SnapshotsComplete ==
  \A n \in Names(backups) : backups[n].st = "ok"

\* t's incremental update reads the cache
UpdateReads(t) == pc[t] = "upd_read" /\ pc'[t] = "w_lock"

\* C26: once the cache is populated, a read that runs beside a writer
\* finds a populated document, the one before the write or the one after:
\* get_activities_from_json and get_statistics_from_json find a document,
\* and the read that starts an incremental update returns stored
\* activities, so that the update's document holds more than its own record
C26_ReadsSeeDocument ==
  [][ cacheLog # << >> =>
        /\ (out' # out /\ out'.call \in {"activities", "statistics"}) => out'.found = "ok"
        /\ \A t \in Threads : UpdateReads(t) => Len(data'[t].activities) > 1 ]_vars

\* C27: at most one BackgroundSyncThread is ever started, however often
\* start_background_sync is called
C27_SingleLoop ==
  loops <= 1

\* the write of _init_json_file opens the file
InitWrites(t) == op[t] = "init" /\ pc[t] = "w_lock" /\ pc'[t] = "w_dump"

\* C28: the construction of a StorageManager never puts the empty default
\* in the place of a document that holds activities
C28_InitKeepsDocument ==
  [][ \A t \in Threads :
        InitWrites(t) => ~(file.st = "ok" /\ file.doc.activities # << >>) ]_vars

\* the ledger has assigned a's id, to a committed record with a's fields
Committed(a) ==
  /\ a.id \in Range(returned)
  /\ a.id \in DOMAIN inserted
  /\ a = WithId(inserted[a.id], a.id)
  /\ a \in ledger

\* C29: every entry of the cache's activities, of a document about to be
\* written and of a snapshot is a record the ledger has committed under
\* that id; a save_activity that is writing its document has the record
\* the ledger committed for it at the front, and the id it returns after
\* the write is that record's
C29_LedgerFirst ==
  /\ \A a \in Range(file.doc.activities) : Committed(a)
  /\ \A t \in Threads : \A a \in Range(data[t].activities) : Committed(a)
  /\ \A n \in Names(backups) : \A a \in Range(backups[n].doc.activities) : Committed(a)
  /\ \A t \in Threads :
       (op[t] = "save" /\ pc[t] = "w_dump") =>
         /\ Head(data[t].activities) = activity[t]
         /\ Committed(activity[t])
  /\ \A t \in Threads :
       (res[t].op = "save" /\ res[t].cacheOk) =>
         /\ res[t].ret = res[t].id
         /\ res[t].ret \in Range(returned)
         /\ Committed(WithId(inserted[res[t].ret], res[t].ret))

\* a save_activity has returned the id of the entry at the front of the
\* cache while a snapshot holds an earlier record
C29_Witness ==
  /\ pc["req1"] = "idle" /\ res["req1"].op = "save" /\ res["req1"].cacheOk
  /\ file.st = "ok" /\ file.doc.activities # << >>
  /\ Head(file.doc.activities).id = res["req1"].ret
  /\ \E n \in Names(backups) :
       /\ backups[n].doc.activities # << >>
       /\ \A a \in Range(backups[n].doc.activities) : a.id < res["req1"].ret

\* t's restore_from_backup looks for the snapshot, or copies it
RestoreRuns(t) == RestoreCopy(t) \/ \E n \in RestoreNames : RestoreOpen(t, n)

\* t's delete_old_activities runs
PurgeRuns(t) == \E d \in PurgeDays : PurgeOlderThan(t, d)

\* C30: backup_json and restore_from_backup leave the ledger as it is,
\* delete_old_activities leaves the cache file and the snapshots as they
\* are, removes ledger records only and returns how many it removed; no
\* step changes the ledger together with the file or the snapshots
C30_StoresFramedApart ==
  [][ /\ BackupJson("sched") => (ledger' = ledger /\ seq' = seq)
      /\ \A t \in Requests : RestoreRuns(t) => (ledger' = ledger /\ seq' = seq)
      /\ ledger' # ledger => (file' = file /\ backups' = backups)
      /\ \A t \in Requests :
           PurgeRuns(t) =>
             /\ file' = file
             /\ backups' = backups
             /\ ledger' \subseteq ledger
             /\ res'[t].ret = Cardinality(ledger \ ledger') ]_vars

\* a purge has removed a record and returned 1 while the cache and its
\* snapshot still hold it
C30_Witness ==
  /\ res["req1"].op = "purge" /\ res["req1"].ret = 1
  /\ file.st = "ok" /\ ~clean["sched"]
  /\ \E a \in Range(file.doc.activities) : a \notin ledger
  /\ \E n \in Names(backups) : backups[n] = file
====
